---------------------------- MODULE Spec2Model ----------------------------
(***************************************************************************)
(* Model of scripts/fetch_trending.py: the TrendingParser markup scanner,  *)
(* extract_section, update_readme, and the main run with its fetches.      *)
(*                                                                         *)
(* Python strings are sequences of one-character strings, so that          *)
(* startswith, count, lstrip, strip, splitlines and the regular            *)
(* expressions are computed character by character as the code does.       *)
(***************************************************************************)
EXTENDS Integers, Sequences, FiniteSets, TLC

VARIABLES
    parser,      \* the TrendingParser instance: its fields, plus the exception a handler raised
    fed,         \* the parse events delivered to the handlers so far, in document order
    text,        \* extract_section: the document argument
    patterns,    \* extract_section: the pattern list argument
    result,      \* extract_section: [done, value] the returned excerpt
    readme,      \* update_readme: README.md on disk, [exists, content]
    calls,       \* update_readme: the latest_path argument of each call made so far
    run          \* main: the state of one run of the script

vars == <<parser, fed, text, patterns, result, readme, calls, run>>

---------------------------------------------------------------------------
(* Bounds of the model.                                                    *)

\* SpecScan: number of parse events delivered
MaxEvents == 4
\* SpecFeed: total number of parse events in the fragments delivered
MaxFedLen == 10
\* SpecExtract: length of the enumerated documents
MaxTextLen == 5
\* SpecIndex: length of the enumerated index documents, in tokens
MaxIndexLen == 3
\* SpecIndex: number of update_readme calls
MaxCalls == 2
\* SpecRun: number of matching listing items beyond TOP_N
MaxBeyondTopN == 1

---------------------------------------------------------------------------
(* Python string primitives.                                               *)

Whitespace == {" ", "\n", "\t"}

\* the least element of a non-empty set of indices: the leftmost match
Least(S) == CHOOSE x \in S : \A y \in S : x <= y

\* str.startswith(c) for a one-character prefix
startswith(s, c) == Len(s) >= 1 /\ s[1] = c

\* str.count(c) for a one-character needle
RECURSIVE count(_, _)
count(s, c) ==
    IF s = <<>> THEN 0
    ELSE (IF Head(s) = c THEN 1 ELSE 0) + count(Tail(s), c)

\* faulty variant of lstrip: only one leading occurrence is removed
lstrip_one(s, c) ==
    IF s # <<>> /\ Head(s) = c THEN Tail(s) ELSE s

\* str.lstrip(c): every leading occurrence of c is removed
RECURSIVE lstrip(_, _)
lstrip(s, c) ==
    IF s # <<>> /\ Head(s) = c THEN lstrip(Tail(s), c) ELSE s

\* " ".join(chunks)
RECURSIVE join(_, _)
join(sep, chunks) ==
    IF chunks = <<>> THEN <<>>
    ELSE IF Len(chunks) = 1 THEN chunks[1]
    ELSE chunks[1] \o sep \o join(sep, Tail(chunks))

\* re.sub(r"\s+", " ", s): every maximal whitespace run becomes one space
RECURSIVE collapse_ws(_)
collapse_ws(s) ==
    IF s = <<>> THEN <<>>
    ELSE IF Head(s) \in Whitespace
         THEN IF Len(s) >= 2 /\ s[2] \in Whitespace
              THEN collapse_ws(Tail(s))
              ELSE <<" ">> \o collapse_ws(Tail(s))
         ELSE <<Head(s)>> \o collapse_ws(Tail(s))

RECURSIVE lstrip_ws(_)
lstrip_ws(s) ==
    IF s # <<>> /\ Head(s) \in Whitespace THEN lstrip_ws(Tail(s)) ELSE s

RECURSIVE rstrip_ws(_)
rstrip_ws(s) ==
    IF s # <<>> /\ s[Len(s)] \in Whitespace
    THEN rstrip_ws(SubSeq(s, 1, Len(s) - 1))
    ELSE s

\* str.strip()
strip(s) == rstrip_ws(lstrip_ws(s))

\* sub occurs in s at index i (1-based)
occurs_at(s, sub, i) ==
    /\ i >= 1
    /\ i + Len(sub) - 1 <= Len(s)
    /\ \A k \in 1..Len(sub) : s[i + k - 1] = sub[k]

\* the Python test `sub in s`
contains(s, sub) == \E i \in 1..(Len(s) + 1) : occurs_at(s, sub, i)

---------------------------------------------------------------------------
(* TrendingParser.                                                         *)

\* An attribute value as dict(attrs) holds it: the key is absent, the
\* attribute was written without a value (Python None), or it is a string.
Absent == [kind |-> "absent", val |-> <<>>]
NoneVal == [kind |-> "none", val |-> <<>>]
Str(s) == [kind |-> "str", val |-> s]

\* the marker class value of a description paragraph
COL9 == <<"c", "o", "l", "-", "9">>

parser_init ==
    [in_h2 |-> FALSE, in_a |-> FALSE, in_desc |-> FALSE,
     current_href |-> NoneVal, current_text |-> <<>>, current_desc |-> <<>>,
     items |-> <<>>, raised |-> "none"]

\* faulty variant of is_repo_href: one path separator is enough
is_repo_href_one_separator(href) ==
    /\ href.kind = "str"
    /\ href.val # <<>>
    /\ startswith(href.val, "/")
    /\ count(href.val, "/") >= 1

\* the href test of handle_starttag, line 34
is_repo_href(href) ==
    /\ href.kind = "str"
    /\ href.val # <<>>
    /\ startswith(href.val, "/")
    /\ count(href.val, "/") >= 2

\* faulty variant of handle_starttag: an anchor is taken outside a listing heading too
handle_starttag_any_anchor(s, tag, attrs) ==
    LET s1 == IF tag = "h2" THEN [s EXCEPT !.in_h2 = TRUE] ELSE s
        s2 == IF tag = "a" /\ attrs.href.kind # "absent"
                 /\ is_repo_href(attrs.href)
              THEN [s1 EXCEPT !.in_a = TRUE,
                              !.current_href = attrs.href,
                              !.current_text = <<>>]
              ELSE s1
        klass == IF attrs.klass.kind = "absent" THEN Str(<<>>) ELSE attrs.klass
    IN  IF tag = "p"
        THEN IF klass.kind = "none"
             THEN [s2 EXCEPT !.raised = "TypeError"]
             ELSE IF contains(klass.val, COL9)
                  THEN [s2 EXCEPT !.in_desc = TRUE, !.current_desc = <<>>]
                  ELSE s2
        ELSE s2

handle_starttag(s, tag, attrs) ==
    LET s1 == IF tag = "h2" THEN [s EXCEPT !.in_h2 = TRUE] ELSE s
        s2 == IF s1.in_h2 /\ tag = "a" /\ attrs.href.kind # "absent"
                 /\ is_repo_href(attrs.href)
              THEN [s1 EXCEPT !.in_a = TRUE,
                              !.current_href = attrs.href,
                              !.current_text = <<>>]
              ELSE s1
        klass == IF attrs.klass.kind = "absent" THEN Str(<<>>) ELSE attrs.klass
    IN  IF tag = "p"
        THEN IF klass.kind = "none"
             THEN [s2 EXCEPT !.raised = "TypeError"]
             ELSE IF contains(klass.val, COL9)
                  THEN [s2 EXCEPT !.in_desc = TRUE, !.current_desc = <<>>]
                  ELSE s2
        ELSE s2

handle_data(s, data) ==
    LET s1 == IF s.in_a
              THEN [s EXCEPT !.current_text = Append(@, data)]
              ELSE s
    IN  IF s1.in_desc
        THEN [s1 EXCEPT !.current_desc = Append(@, data)]
        ELSE s1

\* the anchor branch of handle_endtag, lines 51-63
end_anchor(s) ==
    IF s.current_href.kind # "str"
    THEN [s EXCEPT !.raised = "AttributeError"]
    ELSE LET display == strip(collapse_ws(join(<<" ">>, s.current_text)))
             href == lstrip(s.current_href.val, "/")
             s1 == IF href # <<>>
                   THEN [s EXCEPT !.items =
                            Append(@, [repo |-> href, display |-> display, desc |-> <<>>])]
                   ELSE s
         IN  [s1 EXCEPT !.in_a = FALSE,
                        !.current_href = NoneVal,
                        !.current_text = <<>>]

\* faulty variant of end_desc: the description is assigned even when already set
end_desc_last_wins(s) ==
    LET desc == strip(collapse_ws(join(<<" ">>, s.current_desc)))
        n == Len(s.items)
        s1 == IF n > 0
              THEN [s EXCEPT !.items[n].desc = desc]
              ELSE s
    IN  [s1 EXCEPT !.in_desc = FALSE, !.current_desc = <<>>]

\* the paragraph branch of handle_endtag, lines 66-72
end_desc(s) ==
    LET desc == strip(collapse_ws(join(<<" ">>, s.current_desc)))
        n == Len(s.items)
        s1 == IF n > 0 /\ s.items[n].desc = <<>>
              THEN [s EXCEPT !.items[n].desc = desc]
              ELSE s
    IN  [s1 EXCEPT !.in_desc = FALSE, !.current_desc = <<>>]

handle_endtag(s, tag) ==
    LET s1 == IF tag = "a" /\ s.in_a THEN end_anchor(s) ELSE s
    IN  IF s1.raised # "none" THEN s1
        ELSE LET s2 == IF tag = "h2" THEN [s1 EXCEPT !.in_h2 = FALSE] ELSE s1
             IN  IF tag = "p" /\ s2.in_desc THEN end_desc(s2) ELSE s2

\* Parse events, as HTMLParser delivers them to the three handlers.
StartEv(tag, href, klass) ==
    [type |-> "start", tag |-> tag, href |-> href, klass |-> klass, data |-> <<>>]
DataEv(d) ==
    [type |-> "data", tag |-> "", href |-> Absent, klass |-> Absent, data |-> d]
EndEv(tag) ==
    [type |-> "end", tag |-> tag, href |-> Absent, klass |-> Absent, data |-> <<>>]

\* HTMLParser's dispatch of one event to its handler
dispatch(s, e) ==
    IF e.type = "start"
    THEN handle_starttag(s, e.tag, [href |-> e.href, klass |-> e.klass])
    ELSE IF e.type = "data" THEN handle_data(s, e.data)
    ELSE handle_endtag(s, e.tag)

\* parser.feed: the events in order; an exception ends the feed
RECURSIVE feed(_, _)
feed(s, evs) ==
    IF evs = <<>> \/ s.raised # "none" THEN s
    ELSE feed(dispatch(s, Head(evs)), Tail(evs))


---------------------------------------------------------------------------
(* extract_section.                                                        *)

\* the excerpt cap of line 126
SNIPPET_MAX == 400

lower_char(c) ==
    CASE c = "A" -> "a"
      [] c = "I" -> "i"
      [] c = "U" -> "u"
      [] OTHER -> c

\* str.lower(), for the letters the documents use
lower(s) == [i \in 1..Len(s) |-> lower_char(s[i])]

\* str.splitlines(): a line ends at each line break; no empty last line
RECURSIVE splitlines(_)
splitlines(s) ==
    IF s = <<>> THEN <<>>
    ELSE IF \E i \in 1..Len(s) : s[i] = "\n"
         THEN LET i == CHOOSE k \in 1..Len(s) :
                           s[k] = "\n" /\ \A m \in 1..(k - 1) : s[m] # "\n"
              IN  <<SubSeq(s, 1, i - 1)>> \o splitlines(SubSeq(s, i + 1, Len(s)))
         ELSE <<s>>

\* re.search(p, line, re.I) for a literal pattern, anchored ("^...") or not
search(p, line) ==
    IF p.anchored
    THEN occurs_at(lower(line), lower(p.lit), 1)
    ELSE contains(lower(line), lower(p.lit))

\* lines 110-113: the indices of the lines matching any pattern, ascending
matching_indices(lines, pats) ==
    SelectSeq([i \in 1..Len(lines) |-> i],
              LAMBDA i : \E k \in 1..Len(pats) : search(pats[k], lines[i]))

\* faulty variant of section_start: the last matching line starts the section
section_start_last(indices) == indices[Len(indices)]

\* line 116: start = indices[0]
section_start(indices) == indices[1]

\* lines 117-121: the first line after start that begins with "#", else the
\* position past the last line
RECURSIVE section_end(_, _)
section_end(lines, j) ==
    IF j > Len(lines) THEN Len(lines) + 1
    ELSE IF startswith(lines[j], "#") THEN j
    ELSE section_end(lines, j + 1)

\* the backtick character; the model writes it as an apostrophe, which the
\* documents do not otherwise hold
TICK == "'"

TICKS3 == <<TICK, TICK, TICK>>

\* faulty variant of remove_fenced: a fence with no closing delimiter runs to the end
RECURSIVE remove_fenced_to_end(_)
remove_fenced_to_end(s) ==
    IF s = <<>> THEN <<>>
    ELSE IF occurs_at(s, TICKS3, 1)
         THEN IF \E j \in 4..Len(s) : occurs_at(s, TICKS3, j)
              THEN LET j == CHOOSE k \in 4..Len(s) :
                                /\ occurs_at(s, TICKS3, k)
                                /\ \A m \in 4..(k - 1) : ~occurs_at(s, TICKS3, m)
                   IN  remove_fenced_to_end(SubSeq(s, j + 3, Len(s)))
              ELSE <<>>
         ELSE <<Head(s)>> \o remove_fenced_to_end(Tail(s))

\* line 123: re.sub(r"`{3}[\s\S]*?`{3}", "", s): leftmost matches, each from
\* a triple backtick to the nearest later triple backtick
RECURSIVE remove_fenced(_)
remove_fenced(s) ==
    IF s = <<>> THEN <<>>
    ELSE IF occurs_at(s, TICKS3, 1) /\ \E j \in 4..Len(s) : occurs_at(s, TICKS3, j)
         THEN LET j == CHOOSE k \in 4..Len(s) :
                           /\ occurs_at(s, TICKS3, k)
                           /\ \A m \in 4..(k - 1) : ~occurs_at(s, TICKS3, m)
              IN  remove_fenced(SubSeq(s, j + 3, Len(s)))
         ELSE <<Head(s)>> \o remove_fenced(Tail(s))

\* line 124: re.sub(r"`[^`]+`", "", s)
RECURSIVE remove_inline(_)
remove_inline(s) ==
    IF s = <<>> THEN <<>>
    ELSE IF /\ s[1] = TICK
            /\ Len(s) >= 3
            /\ s[2] # TICK
            /\ \E j \in 3..Len(s) : s[j] = TICK
         THEN LET j == CHOOSE k \in 3..Len(s) :
                           s[k] = TICK /\ \A m \in 3..(k - 1) : s[m] # TICK
              IN  remove_inline(SubSeq(s, j + 1, Len(s)))
         ELSE <<Head(s)>> \o remove_inline(Tail(s))

\* s[:n]
truncate(s, n) == IF Len(s) <= n THEN s ELSE SubSeq(s, 1, n)

\* line 122: the selected lines joined and stripped (text has a matching line)
section_snippet(doc, pats) ==
    LET lines == splitlines(doc)
        start == section_start(matching_indices(lines, pats))
        end == section_end(lines, start + 1)
    IN  strip(join(<<"\n">>, SubSeq(lines, start, end - 1)))

extract_section(doc, pats) ==
    IF doc = <<>> THEN <<>>
    ELSE IF matching_indices(splitlines(doc), pats) = <<>> THEN <<>>
    ELSE truncate(
             collapse_ws(remove_inline(remove_fenced(section_snippet(doc, pats)))),
             SNIPPET_MAX)

---------------------------------------------------------------------------
(* update_readme.  The index document is a sequence of tokens: the two     *)
(* marker headings, a line break, other text, and the generated reference  *)
(* line of a report file.                                                  *)

Tok(t) == [t |-> t, base |-> ""]
\* the literal "## 最新日报" of lines 187 and 190
LATEST == Tok("## latest")
\* the literal "## 目录" of line 187
CONTENTS == Tok("## contents")
NL == Tok("\n")
OTHER_TEXT == Tok("text")

\* os.path.basename of a path [dir, base]
basename(path) == path.base

\* line 186: "- [<basename>](reports/<basename>)"
latest_line(path) == [t |-> "ref", base |-> basename(path)]

\* line 187: re.sub(r"## 最新日报[\s\S]*?## 目录", ..., content, count=1): the
\* first latest heading that a contents heading follows, up to the nearest
\* such contents heading, is replaced
sub_marker_region(content, line) ==
    IF \E i \in 1..Len(content) :
           /\ content[i] = LATEST
           /\ \E j \in (i + 1)..Len(content) : content[j] = CONTENTS
    THEN LET i == Least({k \in 1..Len(content) :
                            /\ content[k] = LATEST
                            /\ \E j \in (k + 1)..Len(content) : content[j] = CONTENTS})
             j == Least({k \in (i + 1)..Len(content) : content[k] = CONTENTS})
         IN  SubSeq(content, 1, i - 1)
                 \o <<LATEST, NL, NL, line, NL, NL, CONTENTS>>
                 \o SubSeq(content, j + 1, Len(content))
    ELSE content

\* lines 179-193, on the file [exists, content]
update_readme(file, latest_path) ==
    IF ~file.exists THEN file
    ELSE LET content == file.content
             line == latest_line(latest_path)
             new_content == sub_marker_region(content, line)
         IN  IF new_content = content
             THEN [file EXCEPT !.content = content \o <<NL, NL, LATEST, NL, NL, line, NL>>]
             ELSE [file EXCEPT !.content = new_content]

---------------------------------------------------------------------------
(* filter_ai, fetch_readme, summarize_repo_cn, build_markdown and main.    *)

TOP_N == 15
README_MAX_CHARS == 4000
KEYWORD == <<"a", "i">>

\* lines 83-89
filter_ai(items) ==
    SelectSeq(items,
              LAMBDA it : contains(lower(it.repo \o <<" ">> \o it.desc), KEYWORD))

BRANCHES == <<"main", "master">>

\* faulty variant of fetch_readme_from: only HTTPError is caught
RECURSIVE fetch_readme_http_only(_, _)
fetch_readme_http_only(responses, k) ==
    IF k > Len(BRANCHES)
    THEN [raised |-> FALSE, value |-> <<>>, attempts |-> k - 1]
    ELSE IF responses[k].kind = "ok"
         THEN [raised |-> FALSE,
               value |-> truncate(responses[k].body, README_MAX_CHARS),
               attempts |-> k]
         ELSE IF responses[k].kind = "http_error"
              THEN fetch_readme_http_only(responses, k + 1)
              ELSE [raised |-> TRUE, value |-> <<>>, attempts |-> k]

\* lines 92-103, from the k-th branch on: responses[k] is what the request
\* for branch k meets (a document, an HTTPError, a timeout, another error)
RECURSIVE fetch_readme_from(_, _)
fetch_readme_from(responses, k) ==
    IF k > Len(BRANCHES)
    THEN [raised |-> FALSE, value |-> <<>>, attempts |-> k - 1]
    ELSE IF responses[k].kind = "ok"
         THEN [raised |-> FALSE,
               value |-> truncate(responses[k].body, README_MAX_CHARS),
               attempts |-> k]
         ELSE IF responses[k].kind = "http_error"
              THEN fetch_readme_from(responses, k + 1)
              ELSE fetch_readme_from(responses, k + 1)

fetch_readme(responses) == fetch_readme_from(responses, 1)

Lit(s) == [anchored |-> FALSE, lit |-> s]
Anchored(s) == [anchored |-> TRUE, lit |-> s]

\* the pattern lists of lines 131-133 (their ASCII patterns)
INSTALL_PATTERNS ==
    <<Lit(<<"i", "n", "s", "t", "a", "l", "l", "a", "t", "i", "o", "n">>), Lit(<<"i", "n", "s", "t", "a", "l", "l">>), Lit(<<"s", "e", "t", "u", "p">>)>>
USAGE_PATTERNS ==
    <<Lit(<<"u", "s", "a", "g", "e">>), Lit(<<"g", "e", "t", "t", "i", "n", "g", " ", "s", "t", "a", "r", "t", "e", "d">>), Lit(<<"e", "x", "a", "m", "p", "l", "e">>), Lit(<<"q", "u", "i", "c", "k", "s", "t", "a", "r", "t">>)>>
INTRO_PATTERNS ==
    <<Anchored(<<"#">>), Lit(<<"a", "b", "o", "u", "t">>), Lit(<<"o", "v", "e", "r", "v", "i", "e", "w">>)>>

\* lines 129-144, given the text fetch_readme returned
summarize_repo_cn(readme_text, desc) ==
    LET install == extract_section(readme_text, INSTALL_PATTERNS)
        usage == extract_section(readme_text, USAGE_PATTERNS)
        found == extract_section(readme_text, INTRO_PATTERNS)
        intro == IF found # <<>> THEN found ELSE desc
    IN  [intro |-> IF intro # <<>> THEN strip(intro) ELSE desc,
         install |-> install,
         usage |-> usage,
         meaning |-> IF desc # <<>> THEN "efficiency" ELSE "reusable"]

\* lines 160-172: the block of the i-th record
record_block(i, it, summary) ==
    [index |-> i, repo |-> it.repo, intro |-> summary.intro,
     install |-> summary.install, usage |-> summary.usage,
     meaning |-> summary.meaning]

\* items[:TOP_N]
shown(items) == IF Len(items) <= TOP_N THEN Len(items) ELSE TOP_N

\* faulty variant of on_error: the failure is reported but the exit status is 0
on_error_exit0(r, where) ==
    [r EXCEPT !.pc = "exited", !.stderr = <<"[ERROR]">>, !.exit = "0",
              !.raisedAt = where]

\* lines 213-217: an exception out of main
on_error(r, where) ==
    [r EXCEPT !.pc = "exited", !.stderr = <<"[ERROR]">>, !.exit = "1",
              !.raisedAt = where]

---------------------------------------------------------------------------
(* Values the other components hold while one component is exercised.      *)

result_none == [done |-> FALSE, value |-> <<>>]
readme_none == [exists |-> FALSE, content |-> <<>>]
run_idle ==
    [pc |-> "idle", items |-> <<>>, i |-> 0, resp |-> <<>>, blocks |-> <<>>,
     fetches |-> 0, report |-> "absent",
     stdout |-> <<>>, stderr |-> <<>>, exit |-> "running", raisedAt |-> "none"]

---------------------------------------------------------------------------
(* SpecScan: the scanner under every sequence of parse events, one event   *)
(* per step, well formed or not.                                           *)

SLASH_A_B == <<"/", "a", "/", "b">>
SLASH_SLASH_B == <<"/", "/", "b">>
SLASH_SLASH == <<"/", "/">>
SLASH_A == <<"/", "a">>
A_B_SLASH == <<"a", "/", "b", "/">>

ScanHrefs ==
    {Absent, NoneVal, Str(SLASH_A_B), Str(SLASH_SLASH), Str(SLASH_A), Str(A_B_SLASH)}
ScanKlasses ==
    {Absent, NoneVal, Str(COL9 \o <<" ", "m">>), Str(<<"c", "o", "l">>)}
ScanData == {<<"x">>, <<" ">>}

ScanInit ==
    /\ parser = parser_init
    /\ fed = <<>>
    /\ text = <<>>
    /\ patterns = <<>>
    /\ result = result_none
    /\ readme = readme_none
    /\ calls = <<>>
    /\ run = run_idle

\* the feed goes on while events remain and no handler has raised
Feeding == parser.raised = "none" /\ Len(fed) < MaxEvents

Deliver(e) ==
    /\ parser' = dispatch(parser, e)
    /\ fed' = Append(fed, e)
    /\ UNCHANGED <<text, patterns, result, readme, calls, run>>

StartHeading ==
    /\ Feeding
    /\ Deliver(StartEv("h2", Absent, Absent))

StartAnchor ==
    /\ Feeding
    /\ \E h \in ScanHrefs : Deliver(StartEv("a", h, Absent))

StartParagraph ==
    /\ Feeding
    /\ \E k \in ScanKlasses : Deliver(StartEv("p", Absent, k))

Data ==
    /\ Feeding
    /\ \E d \in ScanData : Deliver(DataEv(d))

EndTag ==
    /\ Feeding
    /\ \E t \in {"a", "h2", "p"} : Deliver(EndEv(t))

ScanNext == StartHeading \/ StartAnchor \/ StartParagraph \/ Data \/ EndTag

SpecScan == ScanInit /\ [][ScanNext]_vars

---------------------------------------------------------------------------
(* SpecFeed: the scanner fed listing markup fragment by fragment: a        *)
(* heading with its anchor, a heading close, a marker paragraph.           *)

FeedHrefs == {Str(SLASH_A_B), Str(SLASH_SLASH_B), Str(SLASH_SLASH), Str(SLASH_A)}
AnchorTexts == {<< <<"x">> >>, << <<"x">>, <<" ", "y", " ">> >>}
ParaTexts ==
    {<<>>, << <<" ", "\n">> >>, << <<"x">> >>, << <<"y", " ", "\n", "z">> >>}

RECURSIVE data_events(_)
data_events(chunks) ==
    IF chunks = <<>> THEN <<>>
    ELSE <<DataEv(Head(chunks))>> \o data_events(Tail(chunks))

HeadingAnchor(h, chunks) ==
    <<StartEv("h2", Absent, Absent), StartEv("a", h, Absent)>>
        \o data_events(chunks) \o <<EndEv("a")>>

MarkerParagraph(chunks) ==
    <<StartEv("p", Absent, Str(COL9))>> \o data_events(chunks) \o <<EndEv("p")>>

FeedFragment(frag) ==
    /\ Len(fed) + Len(frag) <= MaxFedLen
    /\ parser' = feed(parser, frag)
    /\ fed' = fed \o frag
    /\ UNCHANGED <<text, patterns, result, readme, calls, run>>

FeedHeadingAnchor ==
    /\ parser.raised = "none"
    /\ \E h \in FeedHrefs, chunks \in AnchorTexts :
          FeedFragment(HeadingAnchor(h, chunks))

FeedHeadingClose ==
    /\ parser.raised = "none"
    /\ FeedFragment(<<EndEv("h2")>>)

FeedParagraph ==
    /\ parser.raised = "none"
    /\ \E chunks \in ParaTexts : FeedFragment(MarkerParagraph(chunks))

FeedNext == FeedHeadingAnchor \/ FeedHeadingClose \/ FeedParagraph

SpecFeed == ScanInit /\ [][FeedNext]_vars

---------------------------------------------------------------------------
(* Terms of the scanner claims, read off the delivered events.             *)

\* the scanner as it was after the first k events
StateAt(k) == feed(parser_init, SubSeq(fed, 1, k))

IsStart(k, tag) == fed[k].type = "start" /\ fed[k].tag = tag
IsEnd(k, tag) == fed[k].type = "end" /\ fed[k].tag = tag

\* event k arrives inside an open listing heading: a heading open precedes
\* it with no heading close in between
HeadingOpenAt(k) ==
    \E j \in 1..(k - 1) :
        /\ IsStart(j, "h2")
        /\ \A m \in (j + 1)..(k - 1) : ~IsEnd(m, "h2")

\* number of path separators in a link
Separators(link) == Cardinality({j \in 1..Len(link) : link[j] = "/"})

\* the link begins with a path separator and holds at least two in total
RepoShaped(href) ==
    /\ href.kind = "str"
    /\ Len(href.val) >= 1
    /\ href.val[1] = "/"
    /\ Separators(href.val) >= 2

\* id is link without its leading run of path separators
LeadingSeparatorsStripped(link, id) ==
    \E k \in 0..Len(link) :
        /\ \A j \in 1..k : link[j] = "/"
        /\ id = SubSeq(link, k + 1, Len(link))
        /\ (id = <<>> \/ id[1] # "/")

\* the delivered events are exactly: heading open, anchor open with a
\* repository-shaped link, text events, anchor close
IsAnchorScenario ==
    /\ Len(fed) >= 3
    /\ fed[1] = StartEv("h2", Absent, Absent)
    /\ IsStart(2, "a")
    /\ RepoShaped(fed[2].href)
    /\ \A k \in 3..(Len(fed) - 1) : fed[k].type = "data"
    /\ fed[Len(fed)] = EndEv("a")

\* C2 as stated: for every event sequence made of a listing-heading open, an
\* anchor open whose link begins with a path separator and holds at least two,
\* text events and the anchor close, the scanner yields exactly one record,
\* whose identifier is the link with its leading separator stripped and whose
\* description is empty.
C2_AsStated ==
    IsAnchorScenario =>
        /\ Len(parser.items) = 1
        /\ parser.items[1].repo = Tail(fed[2].href.val)
        /\ parser.items[1].desc = <<>>

\* C2 amended: in that scenario, when the link is not made of path separators
\* only, the scanner yields exactly one record, whose identifier is the link
\* with all of its leading separators stripped and whose description is empty;
\* when the link is made of separators only it yields no record.
C2_OneRecord ==
    IsAnchorScenario =>
        IF \E j \in 1..Len(fed[2].href.val) : fed[2].href.val[j] # "/"
        THEN /\ Len(parser.items) = 1
             /\ LeadingSeparatorsStripped(fed[2].href.val, parser.items[1].repo)
             /\ parser.items[1].repo # <<>>
             /\ parser.items[1].desc = <<>>
        ELSE parser.items = <<>>

C2_Witness ==
    /\ IsAnchorScenario
    /\ Len(fed) >= 5
    /\ fed[2].href.val = SLASH_SLASH_B
    /\ Len(parser.items) = 1
    /\ parser.items[1].repo = <<"b">>

\* event j opens a marker paragraph
MarkerOpen(j) ==
    /\ IsStart(j, "p")
    /\ fed[j].klass.kind = "str"
    /\ \E i \in 1..Len(fed[j].klass.val) : occurs_at(fed[j].klass.val, COL9, i)

\* event k closes a marker paragraph: a marker paragraph open precedes it
\* with no paragraph close in between
DescCloseAt(k) ==
    /\ IsEnd(k, "p")
    /\ \E j \in 1..(k - 1) :
          /\ MarkerOpen(j)
          /\ \A m \in (j + 1)..(k - 1) : ~IsEnd(m, "p")

\* the text of the marker paragraph closed by event k: the text events since
\* its latest marker open, joined, whitespace collapsed, trimmed
ParaText(k) ==
    LET j == CHOOSE o \in 1..(k - 1) :
                 /\ MarkerOpen(o)
                 /\ \A m \in (o + 1)..(k - 1) : ~MarkerOpen(m)
        evs == SelectSeq(SubSeq(fed, j + 1, k - 1), LAMBDA e : e.type = "data")
    IN  strip(collapse_ws(join(<<" ">>, [i \in 1..Len(evs) |-> evs[i].data])))

\* the marker paragraph closes that arrive while record r is the latest one
ClosesFor(r) ==
    {k \in 1..Len(fed) : DescCloseAt(k) /\ Len(StateAt(k).items) = r}

\* C3 as stated: the description of a record is set by the first marker
\* paragraph that closes after the record was appended and before the next
\* one is, whatever its text; later marker paragraphs never change it.
C3_AsStated ==
    \A r \in 1..Len(parser.items) :
        ClosesFor(r) # {} =>
            parser.items[r].desc = ParaText(Least(ClosesFor(r)))

\* C3 amended: the description of a record is the text of the first marker
\* paragraph closing after the record was appended (and before the next one
\* is) whose collapsed, trimmed text is not empty; marker paragraphs with
\* empty text leave it unset and every later marker paragraph is ignored.
C3_FirstNonEmptyWins ==
    \A r \in 1..Len(parser.items) :
        LET ks == {k \in ClosesFor(r) : ParaText(k) # <<>>}
        IN  parser.items[r].desc = IF ks = {} THEN <<>> ELSE ParaText(Least(ks))

C3_Witness ==
    \E r \in 1..Len(parser.items) :
        \E k1, k2 \in ClosesFor(r) :
            /\ k1 < k2
            /\ ParaText(k1) # <<>>
            /\ ParaText(k2) # <<>>
            /\ ParaText(k2) # ParaText(k1)
            /\ parser.items[r].desc = ParaText(k1)

\* record r comes from an anchor that was opened inside an open listing
\* heading with a repository-shaped link
FromCandidateAnchor(r) ==
    \E k \in 1..Len(fed) :
        /\ IsStart(k, "a")
        /\ HeadingOpenAt(k)
        /\ RepoShaped(fed[k].href)
        /\ LeadingSeparatorsStripped(fed[k].href.val, parser.items[r].repo)

\* one step appends at most one record, at the end and on an anchor close,
\* and keeps the identifier and display text of every record already there
RecordsOnlyAppended ==
    LET old == parser.items
        new == parser'.items
    IN  /\ Len(new) \in {Len(old), Len(old) + 1}
        /\ \A i \in 1..Len(old) :
              /\ new[i].repo = old[i].repo
              /\ new[i].display = old[i].display
        /\ Len(new) = Len(old) + 1 => fed'[Len(fed')] = EndEv("a")

C9_NoHandlerRaises ==
    /\ parser.raised = "none"
    /\ parser.in_a => parser.current_href.kind = "str"

\* an anchor with a link of the given kind, opened inside a listing heading,
\* is ignored: opening it changes nothing of the scanner, and when it is not
\* nested in a candidate anchor its close appends no record
AnchorIgnored(Short(_)) ==
    \A k \in 1..Len(fed) :
        (/\ IsStart(k, "a")
         /\ HeadingOpenAt(k)
         /\ fed[k].href.kind = "str"
         /\ Short(fed[k].href.val))
        => /\ StateAt(k) = StateAt(k - 1)
           /\ \A n \in (k + 1)..Len(fed) :
                 (/\ ~StateAt(k - 1).in_a
                  /\ IsEnd(n, "a")
                  /\ \A m \in (k + 1)..(n - 1) : fed[m].type = "data")
                 => StateAt(n).items = StateAt(k - 1).items

FewerThanTwoAfterLeading(link) ==
    /\ Len(link) >= 1
    /\ link[1] = "/"
    /\ Separators(Tail(link)) < 2

NoneAfterLeading(link) ==
    /\ Len(link) >= 1
    /\ link[1] = "/"
    /\ Separators(Tail(link)) = 0

\* C10 as stated: an anchor opened inside a listing heading whose link has
\* fewer than two path separators after the leading one is ignored: it does
\* not become a candidate and no record is appended for it when it closes.
C10_AsStated == AnchorIgnored(FewerThanTwoAfterLeading)

\* C10 amended: an anchor opened inside a listing heading whose link has fewer
\* than two path separators in total, that is none after the leading one, is
\* ignored: it does not become a candidate and no record is appended for it
\* when it closes.
C10_SingleSegmentIgnored == AnchorIgnored(NoneAfterLeading)

C10_Witness ==
    /\ Len(fed) >= 3
    /\ fed[1] = StartEv("h2", Absent, Absent)
    /\ fed[2] = StartEv("a", Str(SLASH_A), Absent)
    /\ fed[Len(fed)] = EndEv("a")
    /\ \A m \in 3..(Len(fed) - 1) : fed[m].type = "data"
    /\ parser.items = <<>>
    /\ ~parser.in_a

---------------------------------------------------------------------------
(* SpecExtract: extract_section applied to every short document over a     *)
(* small alphabet, and to a few longer sample documents.                   *)

TextAlphabet == {"#", "I", "t", TICK, "\n", " "}

BoundedDocs == UNION {[1..n -> TextAlphabet] : n \in 0..MaxTextLen}

EXAMPLE_DOC == <<"#", "#", " ", "I", "n", "s", "t", "a", "l", "l", "\n", "t", "e", "x", "t", "\n", "#", "#", " ", "U", "s", "a", "g", "e", "\n", "m", "o", "r", "e">>
EXAMPLE_EXCERPT == <<"#", "#", " ", "I", "n", "s", "t", "a", "l", "l", " ", "t", "e", "x", "t">>
OPEN_FENCE_DOC == <<"#", "#", " ", "I", "n", "s", "t", "a", "l", "l", "\n", TICK, TICK, TICK, "\n", "p", "i", "p", " ", "i", "n", "s", "t", "a", "l", "l", " ", "x">>
CLOSED_FENCE_DOC == <<"#", " ", "I", "t", "\n", TICK, TICK, TICK, "\n", "p", "i", "p", "\n", TICK, TICK, TICK, "\n", "U", "t">>
THREE_FENCE_DOC == <<"I", TICK, TICK, TICK, "t", TICK, TICK, TICK, "t", TICK, TICK, TICK, "U">>

SampleDocs == {EXAMPLE_DOC, OPEN_FENCE_DOC, CLOSED_FENCE_DOC, THREE_FENCE_DOC}

INSTALL == <<"i", "n", "s", "t", "a", "l", "l">>

PatternLists ==
    {<<Lit(<<"i">>)>>,
     <<Anchored(<<"#">>), Lit(<<"i">>)>>,
     <<Lit(INSTALL)>>}

ExtractInit ==
    /\ text \in BoundedDocs \cup SampleDocs
    /\ patterns \in PatternLists
    /\ result = result_none
    /\ parser = parser_init
    /\ fed = <<>>
    /\ readme = readme_none
    /\ calls = <<>>
    /\ run = run_idle

Extract ==
    /\ ~result.done
    /\ result' = [done |-> TRUE, value |-> extract_section(text, patterns)]
    /\ UNCHANGED <<parser, fed, text, patterns, readme, calls, run>>

SpecExtract == ExtractInit /\ [][Extract]_vars

\* the lines of the document, and whether line i matches one of the patterns
DocLines == splitlines(text)
LineMatches(i) == \E k \in 1..Len(patterns) : search(patterns[k], DocLines[i])
SomeLineMatches == \E i \in 1..Len(DocLines) : LineMatches(i)

\* the lowest matching line, and the first heading line after it (or the
\* position past the last line)
WindowStart == Least({i \in 1..Len(DocLines) : LineMatches(i)})
WindowEnd ==
    Least({j \in (WindowStart + 1)..Len(DocLines) :
               DocLines[j] # <<>> /\ DocLines[j][1] = "#"}
              \cup {Len(DocLines) + 1})

\* the cleanup of lines 122-126 applied to a window of lines
Cleaned(lines) ==
    truncate(collapse_ws(remove_inline(remove_fenced(strip(join(<<"\n">>, lines))))),
             SNIPPET_MAX)

\* C4: with at least one matching line, the excerpt is the cleanup of the
\* window from the lowest-index matching line up to, not including, the first
\* later line that begins with "#" (or to the end of the document); later
\* matching lines do not move or extend it.  "## Install\ntext\n## Usage\nmore"
\* with pattern install gives exactly "## Install text".
C4_FirstMatchWindow ==
    result.done =>
        /\ SomeLineMatches =>
              result.value = Cleaned(SubSeq(DocLines, WindowStart, WindowEnd - 1))
        /\ (text = EXAMPLE_DOC /\ patterns = <<Lit(INSTALL)>>) =>
              result.value = EXAMPLE_EXCERPT

C4_Witness ==
    /\ result.done
    /\ SomeLineMatches
    /\ \E i \in WindowEnd..Len(DocLines) : LineMatches(i)
    /\ result.value # <<>>

\* the triple-backtick delimiters of s from index i on, left to right without
\* overlap: the first opens a fence, the next closes it, and so on
RECURSIVE FencePositions(_, _)
FencePositions(s, i) ==
    IF \E k \in i..Len(s) : occurs_at(s, TICKS3, k)
    THEN LET k == Least({m \in i..Len(s) : occurs_at(s, TICKS3, m)})
         IN  <<k>> \o FencePositions(s, k + 3)
    ELSE <<>>

Snippet == section_snippet(text, patterns)
Fences == FencePositions(Snippet, 1)

\* the section holds an opening fence with no closing fence after it
HasOpenFence == SomeLineMatches /\ Len(Fences) % 2 = 1
OpenFenceAt == Fences[Len(Fences)]

\* lines 124-126, after the fenced blocks are gone
Finished(s) == truncate(collapse_ws(remove_inline(s)), SNIPPET_MAX)

\* C5 as stated: when the section holds an opening triple-backtick fence with
\* no closing fence after it, the fenced-block removal consumes to the end of
\* the section, so the excerpt holds none of the text after the opening
\* delimiter.
C5_AsStated ==
    (result.done /\ HasOpenFence) =>
        result.value = Finished(remove_fenced(SubSeq(Snippet, 1, OpenFenceAt - 1)))

\* C5 amended: when the section holds an opening triple-backtick fence with no
\* closing fence after it, the fenced-block removal removes nothing from that
\* opening delimiter on: the delimiter and all the text after it go on to the
\* inline-span removal, the whitespace collapse and the truncation.
C5_OpenFenceKept ==
    (result.done /\ HasOpenFence) =>
        result.value =
            Finished(remove_fenced(SubSeq(Snippet, 1, OpenFenceAt - 1))
                         \o SubSeq(Snippet, OpenFenceAt, Len(Snippet)))

C5_Witness ==
    /\ result.done
    /\ HasOpenFence
    /\ OpenFenceAt + 3 <= Len(Snippet)
    /\ Snippet[OpenFenceAt + 3] = "t"
    /\ \E i \in 1..Len(result.value) : occurs_at(result.value, TICKS3 \o <<"t">>, i)

---------------------------------------------------------------------------
(* SpecIndex: update_readme called on every short index document.          *)

IndexTokens == {LATEST, CONTENTS, NL, OTHER_TEXT}
IndexDocs == UNION {[1..n -> IndexTokens] : n \in 0..MaxIndexLen}

ReportPaths ==
    {[dir |-> "reports", base |-> "2024-01-01.md"],
     [dir |-> "reports", base |-> "2024-01-02.md"]}

IndexInit ==
    /\ \/ readme = readme_none
       \/ \E d \in IndexDocs : readme = [exists |-> TRUE, content |-> d]
    /\ calls = <<>>
    /\ parser = parser_init
    /\ fed = <<>>
    /\ text = <<>>
    /\ patterns = <<>>
    /\ result = result_none
    /\ run = run_idle

UpdateReadme ==
    /\ Len(calls) < MaxCalls
    /\ \E path \in ReportPaths :
          /\ readme' = update_readme(readme, path)
          /\ calls' = Append(calls, path)
    /\ UNCHANGED <<parser, fed, text, patterns, result, run>>

SpecIndex == IndexInit /\ [][UpdateReadme]_vars

\* the document holds the latest heading with the contents heading after it;
\* update_readme neither creates nor destroys such a pair
HasMarkerPair(content) ==
    \E i, j \in 1..Len(content) :
        i < j /\ content[i] = LATEST /\ content[j] = CONTENTS

ReferenceLines(content) == {i \in 1..Len(content) : content[i].t = "ref"}

EndsWithAppendedSection(content) ==
    /\ Len(content) >= 7
    /\ SubSeq(content, Len(content) - 6, Len(content) - 2) = <<NL, NL, LATEST, NL, NL>>
    /\ content[Len(content) - 1].t = "ref"
    /\ content[Len(content)] = NL

\* C1: on an index document that holds the latest marker heading followed by
\* the contents marker heading, after two updates in a row, for any two
\* report paths, the document holds exactly one generated reference line and
\* no second latest section has been appended.
C1_TwiceOneReference ==
    (readme.exists /\ Len(calls) = 2 /\ HasMarkerPair(readme.content)) =>
        /\ Cardinality(ReferenceLines(readme.content)) = 1
        /\ ~EndsWithAppendedSection(readme.content)

---------------------------------------------------------------------------
(* SpecRun: one run of the script, a step per external call.               *)

\* the k-th matching item of the listing: odd ones match the keyword in the
\* identifier, even ones in the description
listing_item(k) ==
    IF k % 2 = 1
    THEN [repo |-> <<"a", "i", "/">> \o [j \in 1..k |-> "r"],
          display |-> <<"r">>, desc |-> <<>>]
    ELSE [repo |-> <<"o", "/">> \o [j \in 1..k |-> "r"],
          display |-> <<"r">>, desc |-> <<"A", "I", " ", "k", "i", "t">>]

OTHER_ITEM == [repo |-> <<"o", "/", "x">>, display |-> <<"x">>, desc |-> <<"t", "o", "o", "l">>]

\* a listing with n matching items after one that does not match
Listing(n) == <<OTHER_ITEM>> \o [k \in 1..n |-> listing_item(k)]

README_FULL == <<"#", " ", "A", "\n", "#", "#", " ", "I", "n", "s", "t", "a", "l", "l", "\n", "p", "i", "p", "\n", "#", "#", " ", "U", "s", "a", "g", "e", "\n", "r", "u", "n">>
README_PLAIN == <<"#", " ", "A", "\n", "t", "e", "x", "t">>

Ok(body) == [kind |-> "ok", body |-> body]
Failed(kind) == [kind |-> kind, body |-> <<>>]
Failures == {Failed("http_error"), Failed("timeout"), Failed("error")}

\* The repositories that have a README.md on a branch: the first two matching
\* items.  A request for another repository meets a failure of some kind.
HasReadme(it) == it.repo \in {listing_item(1).repo, listing_item(2).repo}

ResponsesFor(it) ==
    IF HasReadme(it)
    THEN {Ok(README_FULL), Ok(README_PLAIN)} \cup Failures
    ELSE Failures

\* out_path of line 203
OUT_PATH == [dir |-> "reports", base |-> "2024-01-01.md"]

RunInit ==
    /\ run = [run_idle EXCEPT !.pc = "fetch_trending"]
    /\ readme \in {readme_none,
                   [exists |-> TRUE,
                    content |-> <<LATEST, NL, OTHER_TEXT, NL, CONTENTS, NL>>]}
    /\ calls = <<>>
    /\ parser = parser_init
    /\ fed = <<>>
    /\ text = <<>>
    /\ patterns = <<>>
    /\ result = result_none

\* line 197: the listing fetch raises
FetchTrendingFails ==
    /\ run.pc = "fetch_trending"
    /\ run' = on_error(run, "fetch_trending")
    /\ UNCHANGED <<parser, fed, text, patterns, result, readme, calls>>

\* lines 197-198: the listing is fetched, scanned and filtered
FetchTrending ==
    /\ run.pc = "fetch_trending"
    /\ \E n \in 0..(TOP_N + MaxBeyondTopN) :
          run' = [run EXCEPT !.items = filter_ai(Listing(n)), !.pc = "makedirs"]
    /\ UNCHANGED <<parser, fed, text, patterns, result, readme, calls>>

\* lines 200-203, and build_markdown up to its loop
MakeDirs ==
    /\ run.pc = "makedirs"
    /\ \/ run' = [run EXCEPT !.pc = "build", !.i = 1]
       \/ run' = on_error(run, "makedirs")
    /\ UNCHANGED <<parser, fed, text, patterns, result, readme, calls>>

\* lines 159-172: one turn of the loop of build_markdown, with the requests
\* of fetch_readme
RenderRecord ==
    /\ run.pc = "build"
    /\ run.i <= shown(run.items)
    /\ \E r1, r2 \in ResponsesFor(run.items[run.i]) :
          LET responses == <<r1, r2>>
              got == fetch_readme(responses)
              made == SubSeq(responses, 1, got.attempts)
              it == run.items[run.i]
              desc == strip(it.desc)
          IN  run' =
                IF got.raised
                THEN on_error([run EXCEPT !.resp = made,
                                          !.fetches = @ + Len(made)],
                              "fetch_readme")
                ELSE [run EXCEPT
                        !.resp = made,
                        !.fetches = @ + Len(made),
                        !.blocks = Append(@, record_block(run.i, it,
                                       summarize_repo_cn(got.value, desc))),
                        !.i = @ + 1]
    /\ UNCHANGED <<parser, fed, text, patterns, result, readme, calls>>

\* lines 205-207: build_markdown returns and the report file is written
WriteReport ==
    /\ run.pc = "build"
    /\ run.i > shown(run.items)
    /\ \/ run' = [run EXCEPT !.pc = "update_readme", !.report = "written"]
       \/ run' = on_error(run, "write_report")
    /\ UNCHANGED <<parser, fed, text, patterns, result, readme, calls>>

\* line 209
UpdateIndex ==
    /\ run.pc = "update_readme"
    /\ \/ /\ run' = [run EXCEPT !.pc = "print"]
          /\ readme' = update_readme(readme, OUT_PATH)
          /\ calls' = Append(calls, OUT_PATH)
       \/ /\ run' = on_error(run, "update_readme")
          /\ UNCHANGED <<readme, calls>>
    /\ UNCHANGED <<parser, fed, text, patterns, result>>

\* line 210, and the normal end of the process
PrintPath ==
    /\ run.pc = "print"
    /\ run' = [run EXCEPT !.pc = "exited", !.stdout = <<OUT_PATH>>, !.exit = "0"]
    /\ UNCHANGED <<parser, fed, text, patterns, result, readme, calls>>

RunNext ==
    \/ FetchTrendingFails
    \/ FetchTrending
    \/ MakeDirs
    \/ RenderRecord
    \/ WriteReport
    \/ UpdateIndex
    \/ PrintPath

SpecRun == RunInit /\ [][RunNext]_vars

\* both branch requests of the record rendered last were made and failed
BothBranchesFailed ==
    /\ Len(run.resp) = Len(BRANCHES)
    /\ \A j \in 1..Len(run.resp) : run.resp[j].kind \in {"http_error", "timeout", "error"}

\* build_markdown has returned
ReportBuilt ==
    \/ run.pc \in {"update_readme", "print"}
    \/ run.pc = "exited" /\ run.raisedAt \in {"none", "write_report", "update_readme"}

\* C6: whatever the two branch requests of a record meet (a document, an
\* error, a timeout, a non-success response), fetch_readme returns instead of
\* raising, with empty text when both fail; the record then still gets its
\* block, with empty install and usage fields, and the records are rendered
\* in list order until the first TOP_N are all rendered.
C6_SecondaryNeverFatal ==
    /\ run.raisedAt # "fetch_readme"
    /\ \A k \in 1..Len(run.blocks) :
          /\ run.blocks[k].index = k
          /\ run.blocks[k].repo = run.items[k].repo
    /\ run.pc = "build" => Len(run.blocks) = run.i - 1
    /\ (run.blocks # <<>> /\ BothBranchesFailed) =>
          /\ run.blocks[Len(run.blocks)].install = <<>>
          /\ run.blocks[Len(run.blocks)].usage = <<>>
    /\ ReportBuilt =>
          Len(run.blocks) = (IF Len(run.items) < TOP_N THEN Len(run.items) ELSE TOP_N)

C6_Witness ==
    /\ run.pc = "exited"
    /\ run.raisedAt = "none"
    /\ Len(run.items) > TOP_N
    /\ Len(run.blocks) = TOP_N
    /\ BothBranchesFailed
    /\ run.resp[1].kind = "timeout"
    /\ run.resp[2].kind = "http_error"
    /\ run.blocks[1].install # <<>>
    /\ run.blocks[2].install = <<>>
    /\ run.fetches > TOP_N

\* C7: if the listing fetch raises, the run ends with exit status 1 after a
\* diagnostic on standard error, and in that run no secondary fetch is made,
\* no report file is written, the index document is not modified and no
\* report path is printed; a run in which nothing raises ends with exit
\* status 0 after printing the report path.
C7_PrimaryFailureFatal ==
    /\ run.raisedAt = "fetch_trending" =>
          /\ run.pc = "exited"
          /\ run.exit = "1"
          /\ run.stderr # <<>>
          /\ run.fetches = 0
          /\ run.report = "absent"
          /\ calls = <<>>
          /\ run.stdout = <<>>
    /\ (run.pc = "exited" /\ run.raisedAt = "none") =>
          /\ run.exit = "0"
          /\ run.stdout = <<OUT_PATH>>
          /\ run.stderr = <<>>
    /\ run.pc # "exited" => run.exit = "running"

C7_Witness ==
    /\ run.pc = "exited"
    /\ run.raisedAt = "fetch_trending"
    /\ run.exit = "1"
    /\ readme.exists

===========================================================================
